---------------------------- MODULE Spec2Model ----------------------------
(***************************************************************************)
(* Model of the programs of artyom/mdserver.                               *)
(*                                                                         *)
(* mdurlcheck (src/mdurlcheck/main.go), specification Spec: main, run,    *)
(* the filepath.Walk callback, processFile with its per-destination       *)
(* callback, fileExists, fileRefs and the refMap fragment cache.          *)
(*                                                                         *)
(* mdrename (src/mdrename/main.go), specification SpecRename: run,        *)
(* updateRenamedFile, processFile and the filesystem they change.         *)
(*                                                                         *)
(* mdserver (src/main.go), specification SpecServer: mdHandler.ServeHTTP. *)
(*                                                                         *)
(* Strings are sequences of one-character strings, so that url.Parse,     *)
(* filepath.Join/Dir/Base/Clean, strings.HasPrefix and strings.HasSuffix  *)
(* are computed on the characters as the Go code computes them.           *)
(***************************************************************************)
EXTENDS Naturals, Sequences, FiniteSets, TLC

(***************************************************************************)
(* Bounds of the model.                                                    *)
(***************************************************************************)
\* number of command-line arguments main iterates over
MaxArgs == 2
\* number of link/image nodes visited in one document
MaxLinks == 2

(***************************************************************************)
(* Strings.                                                                *)
(***************************************************************************)
Letters == {"a","b","c","d","e","f","g","h","i","j","k","l","m",
            "n","o","p","q","r","s","t","u","v","w","x","y","z"}
Digits == {"0","1","2","3","4","5","6","7","8","9"}
HexDigits == Digits \cup {"a","b","c","d","e","f"}

\* strings.Index for a one-character separator: 0 when absent
RECURSIVE IndexFrom(_, _, _)
IndexFrom(s, c, i) ==
    IF i > Len(s) THEN 0
    ELSE IF s[i] = c THEN i
    ELSE IndexFrom(s, c, i + 1)

Index(s, c) == IndexFrom(s, c, 1)

\* strings.Cut(s, c) for a one-character separator
Cut(s, c) ==
    LET i == Index(s, c) IN
    IF i = 0 THEN [before |-> s, after |-> <<>>, found |-> FALSE]
    ELSE [before |-> SubSeq(s, 1, i - 1),
          after |-> SubSeq(s, i + 1, Len(s)),
          found |-> TRUE]

\* strings.Count(s, c)
Count(s, c) == Cardinality({i \in 1..Len(s) : s[i] = c})

HasPrefix(s, p) == Len(s) >= Len(p) /\ SubSeq(s, 1, Len(p)) = p

HasSuffix(s, p) ==
    Len(s) >= Len(p) /\ SubSeq(s, Len(s) - Len(p) + 1, Len(s)) = p

\* strings.Split(s, "/")
RECURSIVE SplitAcc(_, _, _)
SplitAcc(s, cur, acc) ==
    IF s = <<>> THEN Append(acc, cur)
    ELSE IF Head(s) = "/" THEN SplitAcc(Tail(s), <<>>, Append(acc, cur))
    ELSE SplitAcc(Tail(s), Append(cur, Head(s)), acc)

Split(s) == SplitAcc(s, <<>>, <<>>)

\* strings.Join(segs, "/")
RECURSIVE JoinSegs(_)
JoinSegs(segs) ==
    IF segs = <<>> THEN <<>>
    ELSE IF Len(segs) = 1 THEN segs[1]
    ELSE segs[1] \o <<"/">> \o JoinSegs(Tail(segs))

(***************************************************************************)
(* path/filepath on slash-separated paths; a path that begins with "/" is *)
(* rooted.                                                                 *)
(***************************************************************************)
DotDot == <<".", ".">>

\* filepath.IsAbs
IsAbs(p) == p # <<>> /\ p[1] = "/"

\* the lexical processing of filepath.Clean, on the path's elements; a ".."
\* element at the root of a rooted path is dropped
RECURSIVE CleanSegs(_, _, _)
CleanSegs(segs, acc, rooted) ==
    IF segs = <<>> THEN acc
    ELSE LET s == Head(segs) IN
         IF s = <<>> \/ s = <<".">> THEN CleanSegs(Tail(segs), acc, rooted)
         ELSE IF s = DotDot
              THEN IF acc # <<>> /\ acc[Len(acc)] # DotDot
                   THEN CleanSegs(Tail(segs), SubSeq(acc, 1, Len(acc) - 1),
                                  rooted)
                   ELSE IF rooted THEN CleanSegs(Tail(segs), acc, rooted)
                   ELSE CleanSegs(Tail(segs), Append(acc, s), rooted)
         ELSE CleanSegs(Tail(segs), Append(acc, s), rooted)

\* filepath.Clean: the empty result is ".", the root is "/"
Clean(p) ==
    LET c == CleanSegs(Split(p), <<>>, IsAbs(p)) IN
    IF IsAbs(p) THEN <<"/">> \o JoinSegs(c)
    ELSE IF c = <<>> THEN <<".">> ELSE JoinSegs(c)

\* filepath.Join(a, b): empty elements are ignored, the result is cleaned
Join(a, b) ==
    IF a = <<>> /\ b = <<>> THEN <<>>
    ELSE IF a = <<>> THEN Clean(b)
    ELSE IF b = <<>> THEN Clean(a)
    ELSE Clean(a \o <<"/">> \o b)

\* index of the last "/" of p, 0 when there is none
LastSlash(p) ==
    LET S == {i \in 1..Len(p) : p[i] = "/"} IN
    IF S = {} THEN 0 ELSE CHOOSE i \in S : \A j \in S : j <= i

\* filepath.Dir: all but the last element, cleaned
Dir(p) == Clean(SubSeq(p, 1, LastSlash(p)))

\* filepath.Base: the last element; "." for the empty path
RECURSIVE Base(_)
Base(p) ==
    IF p = <<>> THEN <<".">>
    ELSE IF p[Len(p)] = "/"
         THEN IF Len(p) = 1 THEN <<"/">> ELSE Base(SubSeq(p, 1, Len(p) - 1))
    ELSE SubSeq(p, LastSlash(p) + 1, Len(p))

\* filepath.FromSlash: the separator is "/" on the modelled platform
FromSlash(p) == p


(***************************************************************************)
(* net/url.Parse, as processFile uses it on a destination (main.go:112).  *)
(***************************************************************************)
\* the character a valid escape %h1h2 stands for
Decode(h1, h2) ==
    IF <<h1, h2>> = <<"6", "1">> THEN "a"
    ELSE IF <<h1, h2>> = <<"7", "8">> THEN "x"
    ELSE IF <<h1, h2>> = <<"2", "e">> THEN "."
    ELSE IF <<h1, h2>> = <<"2", "f">> THEN "/"
    ELSE "~"

\* url.unescape: an escape that is not % and two hex digits is an error
RECURSIVE Unescape(_)
Unescape(s) ==
    IF s = <<>> THEN [err |-> FALSE, val |-> <<>>]
    ELSE IF Head(s) = "%"
         THEN IF Len(s) < 3 \/ s[2] \notin HexDigits \/ s[3] \notin HexDigits
              THEN [err |-> TRUE, val |-> <<>>]
              ELSE LET r == Unescape(SubSeq(s, 4, Len(s))) IN
                   [err |-> r.err,
                    val |-> IF r.err THEN <<>>
                            ELSE <<Decode(s[2], s[3])>> \o r.val]
    ELSE LET r == Unescape(Tail(s)) IN
         [err |-> r.err,
          val |-> IF r.err THEN <<>> ELSE <<Head(s)>> \o r.val]

\* url.getScheme: scan for the ":" that ends a scheme
RECURSIVE GetSchemeFrom(_, _)
GetSchemeFrom(raw, i) ==
    IF i > Len(raw) THEN [err |-> FALSE, scheme |-> <<>>, rest |-> raw]
    ELSE LET c == raw[i] IN
         IF c \in Letters THEN GetSchemeFrom(raw, i + 1)
         ELSE IF c \in Digits \cup {"+", "-", "."}
              THEN IF i = 1
                   THEN [err |-> FALSE, scheme |-> <<>>, rest |-> raw]
                   ELSE GetSchemeFrom(raw, i + 1)
         ELSE IF c = ":"
              THEN IF i = 1
                   THEN [err |-> TRUE, scheme |-> <<>>, rest |-> <<>>]
                   ELSE [err |-> FALSE,
                         scheme |-> SubSeq(raw, 1, i - 1),
                         rest |-> SubSeq(raw, i + 1, Len(raw))]
         ELSE [err |-> FALSE, scheme |-> <<>>, rest |-> raw]

GetScheme(raw) == GetSchemeFrom(raw, 1)

BadURL ==
    [err |-> TRUE, Scheme |-> <<>>, Opaque |-> <<>>, Host |-> <<>>,
     Path |-> <<>>, RawQuery |-> <<>>, Fragment |-> <<>>]

\* url.parse(rawURL, viaRequest = false): everything before the "#".  The
\* authority is taken whole as the host (no userinfo, no port), and the
\* scheme is not lower-cased: the destinations have lower-case letters only
ParseNoFrag(raw) ==
    LET gs == GetScheme(raw) IN
    IF gs.err THEN BadURL
    ELSE
    LET forceQuery == HasSuffix(gs.rest, <<"?">>) /\ Count(gs.rest, "?") = 1
        qc == Cut(gs.rest, "?")
        rest == IF forceQuery THEN SubSeq(gs.rest, 1, Len(gs.rest) - 1)
                ELSE qc.before
        query == IF forceQuery THEN <<>> ELSE qc.after
        rooted == HasPrefix(rest, <<"/">>)
    IN  IF ~rooted /\ gs.scheme # <<>>
        THEN \* a rootless path after a scheme is opaque
             [err |-> FALSE, Scheme |-> gs.scheme, Opaque |-> rest,
              Host |-> <<>>, Path |-> <<>>, RawQuery |-> query,
              Fragment |-> <<>>]
        ELSE IF ~rooted /\ Index(Cut(rest, "/").before, ":") # 0
        THEN \* first path segment in URL cannot contain colon
             BadURL
        ELSE
        LET hasAuth == HasPrefix(rest, <<"/", "/">>)
                       /\ (gs.scheme # <<>>
                           \/ ~HasPrefix(rest, <<"/", "/", "/">>))
            auth0 == SubSeq(rest, 3, Len(rest))
            i == Index(auth0, "/")
            authority == IF ~hasAuth THEN <<>>
                         ELSE IF i = 0 THEN auth0
                         ELSE SubSeq(auth0, 1, i - 1)
            rest2 == IF ~hasAuth THEN rest
                     ELSE IF i = 0 THEN <<>>
                     ELSE SubSeq(auth0, i, Len(auth0))
            host == Unescape(authority)
            path == Unescape(rest2)
        IN  IF host.err \/ path.err THEN BadURL
            ELSE [err |-> FALSE, Scheme |-> gs.scheme, Opaque |-> <<>>,
                  Host |-> host.val, Path |-> path.val, RawQuery |-> query,
                  Fragment |-> <<>>]

\* url.Parse: cut off the fragment, parse the rest, then set the fragment
UrlParse(rawURL) ==
    LET c == Cut(rawURL, "#")
        u == ParseNoFrag(c.before)
        f == Unescape(c.after)
    IN  IF u.err THEN BadURL
        ELSE IF c.after = <<>> THEN u
        ELSE IF f.err THEN BadURL
        ELSE [u EXCEPT !.Fragment = f.val]


(***************************************************************************)
(* The filesystem the checker runs on: a fixed tree, seen from the working *)
(* directory /w.  An absolute location is the sequence of names from the   *)
(* root directory.                                                         *)
(*     /.w/p.md                                                            *)
(*     /w/.g/h.md   /w/a.md   /w/b.md   /w/n   /w/s/c.md                   *)
(***************************************************************************)
N_a == <<"a", ".", "m", "d">>
N_b == <<"b", ".", "m", "d">>
N_c == <<"c", ".", "m", "d">>
N_h == <<"h", ".", "m", "d">>
N_p == <<"p", ".", "m", "d">>
N_n == <<"n">>
N_s == <<"s">>
N_w == <<"w">>
N_g == <<".", "g">>
N_dw == <<".", "w">>

Cwd == <<N_w>>

FSDirs == {<<>>, <<N_dw>>, <<N_w>>, <<N_w, N_g>>, <<N_w, N_s>>}

FSFiles == {<<N_dw, N_p>>, <<N_w, N_g, N_h>>, <<N_w, N_a>>, <<N_w, N_b>>,
            <<N_w, N_n>>, <<N_w, N_s, N_c>>}

\* the names in a directory, sorted as filepath.Walk's readDirNames sorts
DirNames(abs) ==
    IF abs = <<>> THEN <<N_dw, N_w>>
    ELSE IF abs = <<N_dw>> THEN <<N_p>>
    ELSE IF abs = <<N_w>> THEN <<N_g, N_a, N_b, N_n, N_s>>
    ELSE IF abs = <<N_w, N_g>> THEN <<N_h>>
    ELSE IF abs = <<N_w, N_s>> THEN <<N_c>>
    ELSE <<>>

\* the HeadingID of each heading node of a file's document, in order; a
\* heading without an id has the empty HeadingID
Headings(abs) ==
    IF abs = <<N_w, N_a>> THEN << <<"x">>, <<>> >>
    ELSE IF abs = <<N_w, N_b>> THEN << <<"x">> >>
    ELSE IF abs = <<N_w, N_s, N_c>>
         THEN << <<"x">>, <<"y">>, <<"x", "-", "1">> >>
    ELSE <<>>

\* the HeadingIDs of a file that the parser made unique with a numeric
\* suffix, because an earlier heading of the document has the same text:
\* the headings of s/c.md are x, y and x again
Suffixed(abs) ==
    IF abs = <<N_w, N_s, N_c>> THEN { <<"x", "-", "1">> } ELSE {}

\* entries whose permissions may forbid reading them
Deniable == {<<N_w, N_b>>, <<N_w, N_s>>}

\* where the kernel finds a path, from the directory it starts at
RECURSIVE Resolve(_, _)
Resolve(segs, at) ==
    IF segs = <<>> THEN at
    ELSE LET s == Head(segs) IN
         IF s = <<>> \/ s = <<".">> THEN Resolve(Tail(segs), at)
         ELSE IF s = DotDot
              THEN Resolve(Tail(segs),
                           IF at = <<>> THEN at
                           ELSE SubSeq(at, 1, Len(at) - 1))
         ELSE Resolve(Tail(segs), Append(at, s))

\* a rooted path starts at the root, any other at the working directory
Abs(p) == Resolve(Split(p), IF IsAbs(p) THEN <<>> ELSE Cwd)


(***************************************************************************)
(* Inputs: the command-line arguments and the link/image destinations     *)
(* found in documents.                                                     *)
(***************************************************************************)
\* ".", "..", ".g", "../.w", "s", "a.md", "b.md", "zz"
RootArgs ==
    { <<".">>, DotDot, N_g, <<".", ".", "/", ".", "w">>, N_s, N_a, N_b,
      <<"z", "z">> }

Corpus ==
    { <<>>,                                                \* empty
      N_a,                                                 \* a.md
      <<"z", "z">>,                                        \* zz
      N_s,                                                 \* s
      <<"#", "x">>,                                        \* #x
      <<"#", "q">>,                                        \* #q
      <<"#", "x", "-", "1">>,                              \* #x-1
      N_a \o <<"#", "x">>,                                 \* a.md#x
      N_a \o <<"#", "q">>,                                 \* a.md#q
      <<"z", "z", "#", "x">>,                              \* zz#x
      N_b \o <<"#", "x">>,                                 \* b.md#x
      N_n \o <<"#", "x">>,                                 \* n#x
      <<".", ".", "/">> \o N_a \o <<"#", "x">>,            \* ../a.md#x
      <<"h", ":", "/", "/", "e", "/">> \o N_a \o <<"#", "x">>, \* h://e/a.md#x
      <<"/", "/", "e", "/", "z", "z">>,                    \* //e/zz
      <<"m", ":", "z", "z", "#", "q">>,                    \* m:zz#q
      <<"%", "z", "z">>,                                   \* %zz
      <<"?", "q">>,                                        \* ?q
      <<"%", "6", "1", ".", "m", "d", "#", "%", "7", "8">> \* %61.md#%78
    }

(***************************************************************************)
(* State.                                                                  *)
(***************************************************************************)
VARIABLES
    denied,     \* the entries of Deniable that cannot be read in this run
    pc,         \* "main", "walk", "links", "exit", "fatal"
    nargs,      \* how many of os.Args[1:] main has taken
    exitCode,   \* main's exitCode
    intrefs,    \* the refMap: file name -> set of heading ids
    runName,    \* run's name argument
    inWalk,     \* run is inside filepath.Walk
    walkQ,      \* the names filepath.Walk has still to visit, in order
    outErr,     \* run's outErr is errDirtyRun
    name,       \* processFile's name argument
    idRefs,     \* processFile's idRefs
    hadErrors,  \* processFile's hadErrors
    nlinks,     \* link/image nodes ast.Walk has visited in this document
    ret,        \* what the last call of run returned: "none" while it
                \* runs, "nil", "dirty" or "err"
    last,       \* what the last step did: its log lines and its calls
    loads,      \* file name -> times fileRefs read and parsed it
    processed,  \* the names processFile was called with in this run
    runDirty,   \* a finding was logged in this run
    dests,      \* the destinations of the document visited so far:
                \* "none" of them, only "empty" ones, or "mixed"
    rn,         \* mdrename: the state of run and the filesystem it changes
    srv         \* mdserver: the requests served and the last responses

\* the variables of mdurlcheck
mdvars == <<denied, pc, nargs, exitCode, intrefs, runName, inWalk, walkQ,
            outErr, name, idRefs, hadErrors, nlinks, ret, last, loads,
            processed, runDirty, dests>>

vars == <<mdvars, rn, srv>>

\* mdrename and mdserver while another program of the repository runs
RnOff == [pc |-> "off"]
SrvOff == [pc |-> "off"]

(***************************************************************************)
(* The operating system calls the program makes.                          *)
(***************************************************************************)
\* os.Stat / os.Lstat
Stat(nm) ==
    LET abs == Abs(nm) IN
    [err |-> abs \notin FSDirs \cup FSFiles,
     isDir |-> abs \in FSDirs,
     isRegular |-> abs \in FSFiles]

\* ioutil.ReadFile followed by the parser: the document of the file
ReadFile(nm) ==
    LET abs == Abs(nm) IN
    IF abs \notin FSFiles \/ abs \in denied
    THEN [err |-> TRUE, doc |-> [headings |-> <<>>]]
    ELSE [err |-> FALSE, doc |-> [headings |-> Headings(abs)]]

\* filepath.Walk's readDirNames
ReadDirNames(nm) ==
    LET abs == Abs(nm) IN
    IF abs \notin FSDirs \/ abs \in denied
    THEN [err |-> TRUE, names |-> <<>>]
    ELSE [err |-> FALSE, names |-> DirNames(abs)]

(***************************************************************************)
(* mdurlcheck's functions.                                                 *)
(***************************************************************************)
MdSuffix == <<".", "m", "d">>

\* mutant: any existing entry counts, directories too
fileExistsAnyKind(nm) == ~Stat(nm).err

fileExists(nm) ==
    LET st == Stat(nm) IN
    IF st.err THEN FALSE ELSE st.isRegular

\* extractRefs: the non-empty HeadingIDs of the document
extractRefs(doc) ==
    {doc.headings[i] : i \in 1..Len(doc.headings)} \ {<<>>}

fileRefs(nm) ==
    LET rf == ReadFile(nm) IN
    IF rf.err THEN [err |-> TRUE, refs |-> {}]
    ELSE [err |-> FALSE, refs |-> extractRefs(rf.doc)]

\* mutant: the cache is never consulted
hasRefMiss(m, file, ref) == [okf |-> FALSE, okr |-> FALSE]

\* mutant: a known file is taken to define every id
hasRefFileOnly(m, file, ref) ==
    [okf |-> file \in DOMAIN m, okr |-> file \in DOMAIN m]

\* refMap.hasRef
hasRef(m, file, ref) ==
    IF file \notin DOMAIN m THEN [okf |-> FALSE, okr |-> FALSE]
    ELSE [okf |-> TRUE, okr |-> ref \in m[file]]

\* refMap.setRefs
setRefs(m, file, refs) ==
    [k \in DOMAIN m \cup {file} |-> IF k = file THEN refs ELSE m[k]]

LogLine(nm, dst, msg) == [file |-> nm, dst |-> dst, msg |-> msg]

MsgEmpty == "empty url"
MsgParse == "parse error"
MsgBroken == "broken link"
MsgFragment == "broken link (fragment points to non-existent id)"

NoCalls(m) ==
    [m |-> m, nstat |-> 0, nhasRef |-> 0, nfileRefs |-> 0, nparsed |-> 0,
     file |-> <<>>, frag |-> <<>>, okr |-> FALSE, io |-> "none"]

\* mutant: an empty destination sets hadErrors
onEmptyDirty(nm, dst, m) ==
    [log |-> <<LogLine(nm, dst, "empty url")>>, err |-> TRUE] @@ NoCalls(m)

\* main.go:108-111: an empty destination is logged, hadErrors is not set
onEmpty(nm, dst, m) ==
    [log |-> <<LogLine(nm, dst, MsgEmpty)>>, err |-> FALSE] @@ NoCalls(m)

\* main.go:112-117: a destination url.Parse rejects
onParseError(nm, dst, m) ==
    [log |-> <<LogLine(nm, dst, MsgParse)>>, err |-> TRUE] @@ NoCalls(m)

\* mutant: the ids are looked up in the cache of other files' ids
checkSelfRefCached(nm, dst, u, ids, m) ==
    IF u.Scheme = <<>> /\ u.Host = <<>> /\ u.Path = <<>>
       /\ u.Fragment # <<>> /\ ~hasRef(m, nm, u.Fragment).okr
    THEN [log |-> <<LogLine(nm, dst, "broken link")>>, err |-> TRUE]
    ELSE [log |-> <<>>, err |-> FALSE]

\* main.go:118-123: a destination that is only a fragment is looked up in
\* the ids of the document itself
checkSelfRef(nm, dst, u, ids, m) ==
    IF u.Scheme = <<>> /\ u.Host = <<>> /\ u.Path = <<>>
       /\ u.Fragment # <<>> /\ u.Fragment \notin ids
    THEN [log |-> <<LogLine(nm, dst, MsgBroken)>>, err |-> TRUE]
    ELSE [log |-> <<>>, err |-> FALSE]

\* mutant: a destination without a path is not left out
skipsLocalCheckNoPath(u) == u.Scheme # <<>> \/ u.Host # <<>>

\* mutant: the host is not looked at
skipsLocalCheckNoHost(u) == u.Scheme # <<>> \/ u.Path = <<>>

\* main.go:124: the destinations that get no filesystem check
skipsLocalCheck(u) == u.Scheme # <<>> \/ u.Host # <<>> \/ u.Path = <<>>

\* main.go:127-144: the target of a local destination must be a regular
\* file, and must define the fragment when the destination has one
checkLocal(nm, dst, u, m) ==
    LET filename == Join(Dir(nm), FromSlash(u.Path))
        missing == ~fileExists(filename)
        hasFrag == u.Fragment # <<>>
        hr == hasRef(m, filename, u.Fragment)
        load == hasFrag /\ ~hr.okf
        fr == fileRefs(filename)
        stored == load /\ ~fr.err
        okr == IF stored THEN u.Fragment \in fr.refs ELSE hr.okr
        badFrag == hasFrag /\ ~okr
    IN  [log |-> (IF missing THEN <<LogLine(nm, dst, MsgBroken)>> ELSE <<>>)
                 \o (IF badFrag THEN <<LogLine(nm, dst, MsgFragment)>>
                     ELSE <<>>),
         err |-> missing \/ badFrag,
         m |-> IF stored THEN setRefs(m, filename, fr.refs) ELSE m,
         nstat |-> 1,
         nhasRef |-> IF hasFrag THEN 1 ELSE 0,
         nfileRefs |-> IF load THEN 1 ELSE 0,
         nparsed |-> IF stored THEN 1 ELSE 0,
         file |-> filename,
         frag |-> u.Fragment,
         okr |-> hasFrag /\ okr,
         io |-> IF load /\ fr.err THEN "target" ELSE "none"]

\* processFile's walkFn on one link or image node with destination dst
walkFn(nm, dst, ids, m) ==
    IF dst = <<>> THEN onEmpty(nm, dst, m)
    ELSE
    LET u == UrlParse(dst) IN
    IF u.err THEN onParseError(nm, dst, m)
    ELSE
    LET self == checkSelfRef(nm, dst, u, ids, m) IN
    IF skipsLocalCheck(u) THEN self @@ NoCalls(m)
    ELSE LET loc == checkLocal(nm, dst, u, m) IN
         [loc EXCEPT !.log = self.log \o loc.log,
                     !.err = self.err \/ loc.err]

\* the record of a step that visits no link
Step(op, io) ==
    [op |-> op, dst |-> <<>>, log |-> <<>>, err |-> FALSE, nstat |-> 0,
     nhasRef |-> 0, nfileRefs |-> 0, nparsed |-> 0, file |-> <<>>,
     frag |-> <<>>, okr |-> FALSE, io |-> io]

\* a log line that is a finding (makes the run dirty), not an advisory
IsFinding(l) == l.msg \in {MsgParse, MsgBroken, MsgFragment}

HasFinding(log) == \E i \in 1..Len(log) : IsFinding(log[i])

(***************************************************************************)
(* The program.                                                            *)
(***************************************************************************)
\* the variables of mdurlcheck when a program starts: the permissions are
\* among D and the program is at position at
MdStart(D, at) ==
    /\ denied \in D
    /\ pc = at
    /\ nargs = 0
    /\ exitCode = 0
    /\ intrefs = <<>>
    /\ runName = <<>>
    /\ inWalk = FALSE
    /\ walkQ = <<>>
    /\ outErr = FALSE
    /\ name = <<>>
    /\ idRefs = {}
    /\ hadErrors = FALSE
    /\ nlinks = 0
    /\ ret = "none"
    /\ last = Step("init", "none")
    /\ loads = <<>>
    /\ processed = {}
    /\ runDirty = FALSE
    /\ dests = "none"

Init ==
    /\ MdStart(SUBSET Deniable, "main")
    /\ rn = RnOff
    /\ srv = SrvOff

\* processFile's locals go out of scope
FileLocalsReset ==
    /\ name' = <<>>
    /\ idRefs' = {}
    /\ hadErrors' = FALSE
    /\ nlinks' = 0

\* mutant: the error is reported as errDirtyRun and main goes on
FatalAsDirty(op, io) ==
    /\ pc' = "main"
    /\ exitCode' = 1
    /\ ret' = "dirty"
    /\ last' = Step(op, io)
    /\ inWalk' = FALSE
    /\ walkQ' = <<>>
    /\ outErr' = FALSE
    /\ FileLocalsReset
    /\ UNCHANGED dests

\* run returns an error that is not errDirtyRun, and main calls
\* log.Fatal(err): the process ends with status 1
Fatal(op, io) ==
    /\ pc' = "fatal"
    /\ exitCode' = 1
    /\ ret' = "err"
    /\ last' = Step(op, io)
    /\ inWalk' = FALSE
    /\ walkQ' = <<>>
    /\ outErr' = FALSE
    /\ FileLocalsReset
    /\ UNCHANGED dests

\* processFile(nm) has read and parsed the file: idRefs := extractRefs(doc)
FileBegin(op, nm, doc) ==
    /\ pc' = "links"
    /\ name' = nm
    /\ idRefs' = extractRefs(doc)
    /\ hadErrors' = FALSE
    /\ nlinks' = 0
    /\ dests' = "none"
    /\ last' = Step(op, "none")

\* main takes the next argument and calls run(arg): os.Stat, then
\* processFile for a file or filepath.Walk for a directory
MainArg(arg) ==
    /\ pc = "main"
    /\ nargs < MaxArgs
    /\ nargs' = nargs + 1
    /\ runName' = arg
    /\ runDirty' = FALSE
    /\ UNCHANGED <<denied, intrefs, loads>>
    /\ LET st == Stat(arg)
           rf == ReadFile(arg)
       IN  IF st.err
           THEN Fatal("arg", "stat") /\ processed' = {}
           ELSE IF ~st.isDir
           THEN /\ processed' = {arg}
                /\ IF rf.err
                   THEN Fatal("arg", "readfile")
                   ELSE /\ FileBegin("arg", arg, rf.doc)
                        /\ inWalk' = FALSE
                        /\ walkQ' = <<>>
                        /\ outErr' = FALSE
                        /\ ret' = "none"
                        /\ UNCHANGED exitCode
           ELSE /\ pc' = "walk"
                /\ inWalk' = TRUE
                /\ walkQ' = <<arg>>
                /\ outErr' = FALSE
                /\ ret' = "none"
                /\ processed' = {}
                /\ last' = Step("arg", "none")
                /\ FileLocalsReset
                /\ UNCHANGED <<exitCode, dests>>

\* main.go:67, the directories the walk does not enter
skipDir(nm) == Base(nm) # <<".">> /\ HasPrefix(Base(nm), <<".">>)

\* main.go:70, the files the walk hands to processFile
selected(nm) == HasSuffix(nm, MdSuffix)

\* the names filepath.Walk visits below directory nm, in order
RECURSIVE JoinAll(_, _)
JoinAll(nm, names) ==
    IF names = <<>> THEN <<>>
    ELSE <<Join(nm, Head(names))>> \o JoinAll(nm, Tail(names))

\* mutant: a clean file resets the verdict of the run
walkOutErrLast(prev, dirty) == dirty

\* main.go:73-77: outErr becomes errDirtyRun and stays so
walkOutErr(prev, dirty) == IF dirty THEN TRUE ELSE prev

\* filepath.Walk calls the function of run on the next name
WalkStep ==
    /\ pc = "walk"
    /\ walkQ # <<>>
    /\ UNCHANGED <<denied, nargs, runName, runDirty, intrefs, loads>>
    /\ LET nm == Head(walkQ)
           st == Stat(nm)
           rd == ReadDirNames(nm)
           rf == ReadFile(nm)
       IN  IF st.isDir
           THEN /\ UNCHANGED processed
                /\ IF rd.err
                   THEN Fatal("walk", "readdir")
                   ELSE /\ pc' = "walk"
                        /\ walkQ' = IF skipDir(nm) THEN Tail(walkQ)
                                    ELSE JoinAll(nm, rd.names) \o Tail(walkQ)
                        /\ last' = Step("walk", "none")
                        /\ UNCHANGED <<exitCode, inWalk, outErr, name,
                                       idRefs, hadErrors, nlinks, ret, dests>>
           ELSE IF ~selected(nm)
           THEN /\ pc' = "walk"
                /\ walkQ' = Tail(walkQ)
                /\ last' = Step("walk", "none")
                /\ UNCHANGED <<exitCode, inWalk, outErr, name, idRefs,
                               hadErrors, nlinks, ret, dests, processed>>
           ELSE /\ processed' = processed \cup {nm}
                /\ IF rf.err
                   THEN Fatal("walk", "readfile")
                   ELSE /\ FileBegin("walk", nm, rf.doc)
                        /\ walkQ' = Tail(walkQ)
                        /\ UNCHANGED <<exitCode, inWalk, outErr, ret>>

\* fileRefs has read and parsed file once more
Loaded(l, file) ==
    [k \in DOMAIN l \cup {file} |->
        IF k = file THEN (IF k \in DOMAIN l THEN l[k] + 1 ELSE 1) ELSE l[k]]

\* ast.Walk calls processFile's walkFn on the next link or image node
VisitLink(dst) ==
    /\ pc = "links"
    /\ nlinks < MaxLinks
    /\ \E r \in {walkFn(name, dst, idRefs, intrefs)} :
       /\ intrefs' = r.m
       /\ loads' = IF r.nparsed > 0 THEN Loaded(loads, r.file) ELSE loads
       /\ hadErrors' = (hadErrors \/ r.err)
       /\ runDirty' = (runDirty \/ HasFinding(r.log))
       /\ last' = [op |-> "link", dst |-> dst, log |-> r.log, err |-> r.err,
                   nstat |-> r.nstat, nhasRef |-> r.nhasRef,
                   nfileRefs |-> r.nfileRefs, nparsed |-> r.nparsed,
                   file |-> r.file, frag |-> r.frag, okr |-> r.okr,
                   io |-> r.io]
    /\ nlinks' = nlinks + 1
    /\ dests' = IF dst = <<>> /\ dests # "mixed" THEN "empty" ELSE "mixed"
    /\ UNCHANGED <<denied, pc, nargs, exitCode, runName, inWalk, walkQ,
                   outErr, name, idRefs, ret, processed>>

\* ast.Walk is over: processFile returns errDirtyRun or nil, to the
\* function of run inside filepath.Walk or, through run, to main
FileDone ==
    /\ pc = "links"
    /\ last' = [Step("filedone", "none") EXCEPT !.err = hadErrors]
    /\ FileLocalsReset
    /\ UNCHANGED <<denied, nargs, intrefs, runName, inWalk, walkQ, loads,
                   processed, runDirty, dests>>
    /\ IF inWalk
       THEN /\ pc' = "walk"
            /\ outErr' = walkOutErr(outErr, hadErrors)
            /\ UNCHANGED <<exitCode, ret>>
       ELSE /\ pc' = "main"
            /\ ret' = IF hadErrors THEN "dirty" ELSE "nil"
            /\ exitCode' = IF hadErrors THEN 1 ELSE exitCode
            /\ UNCHANGED outErr

\* filepath.Walk is over: run returns outErr to main
WalkDone ==
    /\ pc = "walk"
    /\ walkQ = <<>>
    /\ pc' = "main"
    /\ ret' = IF outErr THEN "dirty" ELSE "nil"
    /\ exitCode' = IF outErr THEN 1 ELSE exitCode
    /\ inWalk' = FALSE
    /\ outErr' = FALSE
    /\ last' = Step("walkdone", "none")
    /\ UNCHANGED <<denied, nargs, intrefs, runName, walkQ, name, idRefs,
                   hadErrors, nlinks, loads, processed, runDirty, dests>>

\* no argument is left: os.Exit(exitCode); without any argument at all,
\* log.Fatalf prints the usage
MainExit ==
    /\ pc = "main"
    /\ pc' = IF nargs = 0 THEN "fatal" ELSE "exit"
    /\ exitCode' = IF nargs = 0 THEN 1 ELSE exitCode
    /\ last' = Step("exit", "none")
    /\ UNCHANGED <<denied, nargs, intrefs, runName, inWalk, walkQ, outErr,
                   name, idRefs, hadErrors, nlinks, ret, loads, processed,
                   runDirty, dests>>

Next ==
    \/ \E arg \in RootArgs : MainArg(arg) /\ UNCHANGED <<rn, srv>>
    \/ WalkStep /\ UNCHANGED <<rn, srv>>
    \/ \E dst \in Corpus : VisitLink(dst) /\ UNCHANGED <<rn, srv>>
    \/ FileDone /\ UNCHANGED <<rn, srv>>
    \/ WalkDone /\ UNCHANGED <<rn, srv>>
    \/ MainExit /\ UNCHANGED <<rn, srv>>

Spec == Init /\ [][Next]_vars


(***************************************************************************)
(* Vocabulary of the properties: the destination the last step visited,   *)
(* its classification, the place it resolves to and what was logged.      *)
(***************************************************************************)
Visited == last.op = "link"

LastU == UrlParse(last.dst)

IsLocalPath(u) ==
    ~u.err /\ u.Scheme = <<>> /\ u.Host = <<>> /\ u.Path # <<>>

IsFragmentOnly(u) ==
    ~u.err /\ u.Scheme = <<>> /\ u.Host = <<>> /\ u.Path = <<>>
    /\ u.Fragment # <<>>

IsExternal(u) == ~u.err /\ (u.Scheme # <<>> \/ u.Host # <<>>)

\* the directory of the containing file joined with the destination's path
Target == Join(Dir(name), LastU.Path)

TargetMissing == Abs(Target) \notin FSDirs \cup FSFiles

TargetIsFile == Abs(Target) \in FSFiles

\* the heading ids the file at path p defines
IdsOf(p) ==
    LET h == Headings(Abs(p)) IN {h[i] : i \in 1..Len(h)} \ {<<>>}

NumFindings == Cardinality({i \in 1..Len(last.log) : IsFinding(last.log[i])})

BrokenLine == LogLine(name, last.dst, MsgBroken)

FragmentLine == LogLine(name, last.dst, MsgFragment)

(***************************************************************************)
(* C1: a LocalPath destination whose resolved path does not exist yields  *)
(* exactly one BrokenLink finding and marks the file dirty, with or       *)
(* without a fragment.                                                     *)
(***************************************************************************)
C1_MissingTargetOneFinding ==
    (Visited /\ IsLocalPath(LastU) /\ TargetMissing)
        => (NumFindings = 1 /\ hadErrors)

(***************************************************************************)
(* C2: a LocalPath destination without a fragment yields a finding if and *)
(* only if its resolved path is not an existing regular file; the finding *)
(* is the one line "broken link".                                          *)
(***************************************************************************)
C2_FindingIffNotRegular ==
    (Visited /\ IsLocalPath(LastU) /\ LastU.Fragment = <<>>)
        => /\ TargetIsFile => (last.log = <<>> /\ ~last.err)
           /\ ~TargetIsFile => (last.log = <<BrokenLine>> /\ hadErrors)

C2_Witness ==
    /\ Visited
    /\ last.dst = N_s
    /\ Abs(Target) \in FSDirs
    /\ last.log = <<BrokenLine>>

C4_Original ==
    (Visited /\ IsLocalPath(LastU) /\ LastU.Fragment # <<>> /\ TargetIsFile)
        => /\ LastU.Fragment \in IdsOf(Target)
                => (last.log = <<>> /\ ~last.err)
           /\ LastU.Fragment \notin IdsOf(Target)
                => (last.log = <<FragmentLine>> /\ hadErrors)

(***************************************************************************)
(* C4, amended: the same for a target that is an existing regular file    *)
(* that can be read, whether its ids were cached or are loaded by this    *)
(* lookup; a regular file that cannot be read yields the fragment finding *)
(* whatever ids it defines.                                                *)
(***************************************************************************)
C4_FragmentOfReadableTarget ==
    (Visited /\ IsLocalPath(LastU) /\ LastU.Fragment # <<>> /\ TargetIsFile)
        => IF Abs(Target) \in denied
           THEN last.log = <<FragmentLine>> /\ hadErrors
           ELSE /\ LastU.Fragment \in IdsOf(Target)
                     => (last.log = <<>> /\ ~last.err)
                /\ LastU.Fragment \notin IdsOf(Target)
                     => (last.log = <<FragmentLine>> /\ hadErrors)

\* the ids of the target were in the cache, and the fragment is not one
C4_Witness ==
    /\ Visited
    /\ IsLocalPath(LastU)
    /\ TargetIsFile
    /\ last.nhasRef = 1
    /\ last.nfileRefs = 0
    /\ LastU.Fragment \notin IdsOf(Target)
    /\ last.log = <<FragmentLine>>

(***************************************************************************)
(* C5: a destination with a scheme or a host yields no finding, no        *)
(* filesystem check and no fragment lookup, and leaves the fragment cache *)
(* as it was.                                                              *)
(***************************************************************************)
C5_ExternalUntouched ==
    /\ [](Visited /\ IsExternal(LastU)
            => /\ last.log = <<>>
               /\ ~last.err
               /\ last.nstat = 0
               /\ last.nhasRef = 0
               /\ last.nfileRefs = 0)
    /\ [][(last'.op = "link" /\ IsExternal(UrlParse(last'.dst)))
            => (intrefs' = intrefs /\ hadErrors' = hadErrors)]_vars

\* a destination with a host and no scheme, in a file without findings
C5_Witness ==
    /\ Visited
    /\ LastU.Scheme = <<>>
    /\ LastU.Host # <<>>
    /\ LastU.Path # <<>>
    /\ last.log = <<>>
    /\ ~hadErrors

(***************************************************************************)
(* C6: an empty destination yields the one advisory line "empty url" and  *)
(* sets no error: a file whose only destinations are empty returns nil,   *)
(* and a run on that file alone returns nil.                               *)
(***************************************************************************)
C6_EmptyIsAdvisory ==
    /\ (Visited /\ last.dst = <<>>)
          => (last.log = <<LogLine(name, <<>>, MsgEmpty)>> /\ ~last.err)
    /\ (pc = "links" /\ dests = "empty") => ~hadErrors
    /\ (last.op = "filedone" /\ dests = "empty")
          => (~last.err /\ (pc = "main" => ret = "nil"))

C6_Witness ==
    /\ last.op = "filedone"
    /\ dests = "empty"
    /\ pc = "main"
    /\ ret = "nil"
    /\ exitCode = 0


(***************************************************************************)
(* C7: a run that ends without a fatal error returns errDirtyRun if and   *)
(* only if a finding was logged for one of its files; a dirty run sets    *)
(* exit code 1 and main goes on.  Within a run the dirty verdict is never *)
(* reset, and after a finding the scan goes on with the next destination  *)
(* and, after a dirty file, with the rest of the walk.                    *)
(***************************************************************************)
C7_DirtyAggregation ==
    /\ [](ret \in {"nil", "dirty"}
            => /\ (ret = "dirty") <=> runDirty
               /\ ret = "dirty" => (exitCode = 1 /\ pc \in {"main", "exit"}))
    /\ [][/\ (outErr /\ pc' \in {"walk", "links"}) => outErr'
          /\ exitCode = 1 => exitCode' = 1
          /\ (last'.op = "link" /\ last'.err) => (pc' = "links" /\ hadErrors')
          /\ (last'.op = "filedone" /\ inWalk)
                => (pc' = "walk" /\ walkQ' = walkQ)]_vars

\* the first argument was dirty, the second clean: the exit code stays 1
C7_Witness ==
    /\ pc = "main"
    /\ nargs = 2
    /\ ret = "nil"
    /\ processed # {}
    /\ exitCode = 1

(***************************************************************************)
(* C8, as claimed: every I/O failure, that of reading a link's target for *)
(* its fragment ids included, makes run return an error that is not       *)
(* errDirtyRun.                                                            *)
(***************************************************************************)
C8_Original == last.io # "none" => (pc = "fatal" /\ ret = "err")

(***************************************************************************)
(* C8, amended: a failure of os.Stat on the argument, of reading a file   *)
(* handed to processFile or of reading a directory of the walk makes run  *)
(* return a non-dirty error at once, also after dirty files, and nothing  *)
(* is processed afterwards; a failure to read a link's target when its    *)
(* fragment ids are loaded is not fatal: it is logged as a fragment       *)
(* finding and the scan goes on.                                           *)
(***************************************************************************)
C8_FatalIOExceptTarget ==
    /\ [](/\ last.io \in {"stat", "readfile", "readdir"}
               => (pc = "fatal" /\ ret = "err" /\ exitCode = 1)
          /\ last.io = "target"
               => /\ pc = "links"
                  /\ last.log[Len(last.log)] = FragmentLine
                  /\ hadErrors)
    /\ [][pc = "fatal"
            => (pc' = "fatal" /\ processed' = processed /\ nargs' = nargs)]_vars

\* the walk of "." stops at the unreadable b.md after a dirty a.md, and
\* s/c.md is never processed
C8_Witness ==
    /\ pc = "fatal"
    /\ last.io = "readfile"
    /\ runDirty
    /\ runName = <<".">>
    /\ <<N_w, N_s>> \notin denied
    /\ Join(N_s, N_c) \notin processed

(***************************************************************************)
(* C9: run on a directory processes exactly the .md files reachable from  *)
(* it without passing through a directory whose name begins with a dot,   *)
(* the root directory itself being exempt from that rule.                  *)
(***************************************************************************)
\* the .md files below directory nm that the rule of the claim selects
RECURSIVE MdUnder(_)
MdUnder(nm) ==
    LET names == DirNames(Abs(nm)) IN
    UNION { LET child == Join(nm, names[i]) IN
            IF Abs(child) \in FSDirs
            THEN IF HasPrefix(names[i], <<".">>) THEN {} ELSE MdUnder(child)
            ELSE IF HasSuffix(names[i], MdSuffix) THEN {child} ELSE {}
          : i \in 1..Len(names) }

C9_ExactlyMdBelowRoot ==
    last.op = "walkdone" => processed = MdUnder(runName)

(***************************************************************************)
(* C10: within one session a file's ids are read and parsed at most once  *)
(* per resolved file name, every lookup answers what the cache entry of   *)
(* the file says after it, and an entry, once stored, is never changed or *)
(* removed: so the same (file, fragment) lookup always answers the same.  *)
(***************************************************************************)
C10_CacheIdempotent ==
    /\ [](/\ \A k \in DOMAIN loads : loads[k] <= 1
          /\ DOMAIN loads = DOMAIN intrefs
          /\ (Visited /\ last.nhasRef = 1)
                => (last.okr <=> (/\ last.file \in DOMAIN intrefs
                                  /\ last.frag \in intrefs[last.file])))
    /\ [][\A k \in DOMAIN intrefs :
            k \in DOMAIN intrefs' /\ intrefs'[k] = intrefs[k]]_vars

\* a second document's link is answered from the cache
C10_Witness ==
    /\ Visited
    /\ last.nhasRef = 1
    /\ last.nfileRefs = 0
    /\ last.okr
    /\ name # last.file
    /\ last.file \in DOMAIN loads
    /\ loads[last.file] = 1
    /\ Cardinality(DOMAIN intrefs) >= 2


(***************************************************************************)
(***************************************************************************)
(* mdrename (src/mdrename/main.go): run renames src to dst, rewrites the  *)
(* links of the renamed file with updateRenamedFile and the links to it   *)
(* in every markdown file below "." with processFile.                     *)
(***************************************************************************)
(***************************************************************************)
N_t == <<"t">>
N_x == <<"x">>


(***************************************************************************)
(* mdrename (src/mdrename/main.go): the operations of path/filepath,      *)
(* net/url and strings that run, updateRenamedFile and processFile use.   *)
(***************************************************************************)
\* the elements of a cleaned path, without the empty one before a root "/"
Elems(p) == SelectSeq(Split(p), LAMBDA s : s # <<>> /\ s # <<".">>)

\* how many leading elements two paths share
RECURSIVE CommonLen(_, _)
CommonLen(bs, ts) ==
    IF bs = <<>> \/ ts = <<>> \/ Head(bs) # Head(ts) THEN 0
    ELSE 1 + CommonLen(Tail(bs), Tail(ts))

\* n elements ".."
RECURSIVE Ups(_)
Ups(n) == IF n = 0 THEN <<>> ELSE <<DotDot>> \o Ups(n - 1)

\* filepath.Rel: there is no relative path between a rooted and an
\* unrooted path, nor from a base that climbs above the target's start
Rel(basepath, targpath) ==
    LET base == Clean(basepath)
        targ == Clean(targpath)
        bs == Elems(base)
        ts == Elems(targ)
        k == CommonLen(bs, ts)
        brest == SubSeq(bs, k + 1, Len(bs))
        trest == SubSeq(ts, k + 1, Len(ts))
    IN  IF targ = base THEN [err |-> FALSE, val |-> <<".">>]
        ELSE IF IsAbs(base) # IsAbs(targ) THEN [err |-> TRUE, val |-> <<>>]
        ELSE IF brest # <<>> /\ Head(brest) = DotDot
             THEN [err |-> TRUE, val |-> <<>>]
        ELSE [err |-> FALSE, val |-> JoinSegs(Ups(Len(brest)) \o trest)]

\* filepath.ToSlash: the separator is "/" on the modelled platform
ToSlash(p) == p

\* url.escape in a path or a fragment: of the characters of the model,
\* the space, the percent sign and the brackets are percent-encoded
RECURSIVE Escape(_)
Escape(s) ==
    IF s = <<>> THEN <<>>
    ELSE (IF Head(s) = " " THEN <<"%", "2", "0">>
          ELSE IF Head(s) = "%" THEN <<"%", "2", "5">>
          ELSE IF Head(s) = "[" THEN <<"%", "5", "B">>
          ELSE IF Head(s) = "]" THEN <<"%", "5", "D">>
          ELSE <<Head(s)>>) \o Escape(Tail(s))

\* (&url.URL{Path: path, Fragment: fragment}).String(): a first path
\* segment with a colon is guarded by "./"
URLString(path, fragment) ==
    LET first == Cut(path, "/").before
    IN  (IF Count(first, ":") > 0 THEN <<".", "/">> ELSE <<>>)
        \o Escape(path)
        \o (IF fragment = <<>> THEN <<>> ELSE <<"#">> \o Escape(fragment))

\* s has t at position i
HasAt(s, t, i) == i + Len(t) - 1 <= Len(s) /\ SubSeq(s, i, i + Len(t) - 1) = t

\* bytes.Contains
Contains(s, t) == \E i \in 1..(Len(s) + 1) : HasAt(s, t, i)

\* strings.NewReplacer(repl...).Replace(s): at each position the first
\* pair, in argument order, whose old string matches there is applied, and
\* the scan goes on after the match
RECURSIVE Replace(_, _, _)
Replace(repl, s, i) ==
    IF i > Len(s) THEN <<>>
    ELSE LET M == {j \in 1..Len(repl) : HasAt(s, repl[j][1], i)}
         IN  IF M = {} THEN <<s[i]>> \o Replace(repl, s, i + 1)
             ELSE LET j == CHOOSE j \in M : \A h \in M : j <= h
                  IN  repl[j][2] \o Replace(repl, s, i + Len(repl[j][1]))

\* the link and image nodes of a document in the order ast.Walk enters
\* them, each with its Destination: an inline link is [text](destination),
\* an inline image the same after "!"
RECURSIVE Nodes(_, _)
Nodes(b, i) ==
    IF i > Len(b) THEN <<>>
    ELSE IF b[i] # "[" THEN Nodes(b, i + 1)
    ELSE LET j == IndexFrom(b, "]", i + 1)
         IN  IF j = 0 \/ j + 1 > Len(b) \/ b[j + 1] # "("
             THEN Nodes(b, i + 1)
             ELSE LET k == IndexFrom(b, ")", j + 2)
                  IN  IF k = 0 THEN Nodes(b, i + 1)
                      ELSE <<[image |-> i > 1 /\ b[i - 1] = "!",
                              Destination |-> SubSeq(b, j + 2, k - 1)]>>
                           \o Nodes(b, k + 1)

(***************************************************************************)
(* The filesystem mdrename changes: fs.files gives the bytes of each      *)
(* regular file, fs.dirs the directories, fs.noRead the entries that      *)
(* cannot be read and fs.noWrite the files that cannot be written.        *)
(***************************************************************************)
\* os.Stat on fs: "file", "dir" or "none"
RnStat(fs, p) ==
    IF Abs(p) \in DOMAIN fs.files THEN "file"
    ELSE IF Abs(p) \in fs.dirs THEN "dir"
    ELSE "none"

\* mutant: no path is taken to name a regular file
rnFileExistsNever(fs, p) == FALSE

\* mdrename's fileExists: the path names a regular file
rnFileExists(fs, p) == RnStat(fs, p) = "file"

\* the proper prefixes of a location and the location itself
Prefixes(abs) == {SubSeq(abs, 1, n) : n \in 0..Len(abs)}

\* os.MkdirAll: fails when an element of the path is a regular file
MkdirAll(fs, p) ==
    IF Prefixes(Abs(p)) \cap DOMAIN fs.files # {}
    THEN [err |-> TRUE, fs |-> fs]
    ELSE [err |-> FALSE,
          fs |-> [fs EXCEPT !.dirs = fs.dirs \cup Prefixes(Abs(p))]]

\* the function f without x
Without(f, x) == [y \in DOMAIN f \ {x} |-> f[y]]

\* the set S with x in the place of y
Moved(S, y, x) == IF y \in S THEN (S \ {y}) \cup {x} ELSE S \ {x}

\* os.Rename of a regular file: the source must exist, the destination's
\* directory too, and the destination must not be a directory
Rename(fs, old, new) ==
    IF \/ Abs(old) \notin DOMAIN fs.files
       \/ Abs(new) \in fs.dirs
       \/ Abs(new) = <<>>
       \/ SubSeq(Abs(new), 1, Len(Abs(new)) - 1) \notin fs.dirs
    THEN [err |-> TRUE, fs |-> fs]
    ELSE [err |-> FALSE,
          fs |-> [fs EXCEPT
                    !.files = (Abs(new) :> fs.files[Abs(old)])
                              @@ Without(fs.files, Abs(old)),
                    !.noRead = Moved(fs.noRead, Abs(old), Abs(new)),
                    !.noWrite = Moved(fs.noWrite, Abs(old), Abs(new))]]

\* ioutil.ReadFile on fs
RnReadFile(fs, p) ==
    IF Abs(p) \in DOMAIN fs.files /\ Abs(p) \notin fs.noRead
    THEN [err |-> FALSE, b |-> fs.files[Abs(p)]]
    ELSE [err |-> TRUE, b |-> <<>>]

\* ioutil.WriteFile on fs, to a file that exists
WriteFile(fs, p, data) ==
    IF Abs(p) \in DOMAIN fs.files /\ Abs(p) \notin fs.noWrite
    THEN [err |-> FALSE, fs |-> [fs EXCEPT !.files[Abs(p)] = data]]
    ELSE [err |-> TRUE, fs |-> fs]

\* every name of the model, in the order readDirNames sorts names
SortedNames == <<N_g, N_dw, N_a, N_b, N_c, N_h, N_n, N_p, N_s, N_t, N_w, N_x>>

\* readDirNames on fs
RnDirNames(fs, abs) ==
    SelectSeq(SortedNames,
              LAMBDA n : Append(abs, n) \in DOMAIN fs.files \cup fs.dirs)

(***************************************************************************)
(* updateRenamedFile and processFile.                                      *)
(***************************************************************************)
\* both callbacks leave a destination alone that does not parse, that has
\* a scheme or a host, or that has no path (main.go:129, 178)
rnSkips(u) == u.err \/ u.Scheme # <<>> \/ u.Host # <<>> \/ u.Path = <<>>

\* the pair of strings one rewritten destination adds to repl
ReplPair(link, relPath, u) ==
    << <<"(">> \o link \o <<")">>,
       <<"(">> \o URLString(ToSlash(relPath), u.Fragment) \o <<")">> >>

\* the element of a set of one element; The({e : x \in {d}}) is e with x
\* standing for the value of d
The(S) == CHOOSE x \in S : TRUE

\* what the callback of updateRenamedFile does with one link or image
\* node: it skips the node, fails in filepath.Rel, or adds a pair to repl
\* (main.go:128-141)
updateNode(node, src, dst) ==
    The({ IF rnSkips(u) THEN [kind |-> "skip"]
          ELSE The({ IF rel.err THEN [kind |-> "err"]
                     ELSE [kind |-> "pair",
                           pair |-> ReplPair(node.Destination, rel.val, u)]
                     : rel \in {Rel(Dir(dst),
                                    Join(Dir(src), FromSlash(u.Path)))} })
          : u \in {UrlParse(node.Destination)} })

\* updateRenamedFile's ast.Walk over the link and image nodes: repl and
\* walkErr when it ends; a failing filepath.Rel terminates the walk
RECURSIVE updateWalk(_, _, _, _)
updateWalk(nodes, src, dst, repl) ==
    IF nodes = <<>> THEN [walkErr |-> FALSE, repl |-> repl]
    ELSE The({ IF o.kind = "err" THEN [walkErr |-> TRUE, repl |-> repl]
               ELSE updateWalk(rest, src, dst,
                               IF o.kind = "pair" THEN Append(repl, o.pair)
                               ELSE repl)
               : o \in {updateNode(Head(nodes), src, dst)},
                 rest \in {Tail(nodes)} })

\* what a function of mdrename returns when its ast.Walk ended with
\* walkErr set: "return err" returns the err of the ioutil.ReadFile call,
\* which is nil here (main.go:144-146, 196-198)
onWalkErr == "nil"

\* the end of updateRenamedFile and of processFile, after the ast.Walk
\* that gave w, on the bytes b of file nm (main.go:144-151, 196-206)
rewrite(fs, nm, b, w) ==
    IF w.walkErr THEN [ret |-> onWalkErr, fs |-> fs, relErr |-> TRUE]
    ELSE IF w.repl = <<>> THEN [ret |-> "nil", fs |-> fs, relErr |-> FALSE]
    ELSE The({ [ret |-> IF wr.err THEN "write" ELSE "nil", fs |-> wr.fs,
                relErr |-> FALSE]
               : wr \in {WriteFile(fs, nm, Replace(w.repl, b, 1))} })

\* updateRenamedFile(src, dst): the error it returns and the filesystem
\* it leaves
updateRenamedFile(fs, src, dst) ==
    The({ IF rd.err THEN [ret |-> "read", fs |-> fs, relErr |-> FALSE]
          ELSE The({ rewrite(fs, dst, rd.b, w)
                     : w \in {updateWalk(Nodes(rd.b, 1), src, dst, <<>>)} })
          : rd \in {RnReadFile(fs, dst)} })

\* what the callback of processFile does with one node: it skips an image,
\* a destination that is not a local path and one whose path, joined to
\* the directory of the file, is not src; for the others it fails in
\* filepath.Rel or adds a pair to repl (main.go:170-193)
processNode(node, nm, src, dst) ==
    The({ IF node.image \/ rnSkips(u) THEN [kind |-> "skip"]
          ELSE IF Join(Dir(nm), FromSlash(u.Path)) # src
               THEN [kind |-> "skip"]
          ELSE The({ IF rel.err THEN [kind |-> "err"]
                     ELSE [kind |-> "pair",
                           pair |-> ReplPair(node.Destination, rel.val, u)]
                     : rel \in {Rel(Dir(nm), dst)} })
          : u \in {UrlParse(node.Destination)} })

\* processFile's ast.Walk over the link nodes
RECURSIVE processWalk(_, _, _, _, _)
processWalk(nodes, nm, src, dst, repl) ==
    IF nodes = <<>> THEN [walkErr |-> FALSE, repl |-> repl]
    ELSE The({ IF o.kind = "err" THEN [walkErr |-> TRUE, repl |-> repl]
               ELSE processWalk(rest, nm, src, dst,
                                IF o.kind = "pair" THEN Append(repl, o.pair)
                                ELSE repl)
               : o \in {processNode(Head(nodes), nm, src, dst)},
                 rest \in {Tail(nodes)} })

\* the cheap check before parsing: the bytes hold the base name of src
prefilter(b, src) == Contains(b, Base(src))

\* processFile(name, src, dst): the error it returns and the filesystem
\* it leaves
rnProcessFile(fs, nm, src, dst) ==
    The({ IF rd.err THEN [ret |-> "read", fs |-> fs, relErr |-> FALSE]
          ELSE IF ~prefilter(rd.b, src)
               THEN [ret |-> "nil", fs |-> fs, relErr |-> FALSE]
          ELSE The({ rewrite(fs, nm, rd.b, w)
                     : w \in {processWalk(Nodes(rd.b, 1), nm, src, dst,
                                          <<>>)} })
          : rd \in {RnReadFile(fs, nm)} })

(***************************************************************************)
(* mdrename: the inputs.  The documents hold inline links and images, and *)
(* text that looks like a destination without being one.                  *)
(***************************************************************************)
\* the bytes a.md may hold: "[l](b.md#x)", "![i](s/c.md) [l](h://e/a.md)",
\* "[l](a.md)", "t"
TextsA ==
    { <<"[", "l", "]", "(">> \o N_b \o <<"#", "x", ")">>,
      <<"!", "[", "i", "]", "(", "s", "/">> \o N_c \o <<")", " ">>
          \o <<"[", "l", "]", "(", "h", ":", "/", "/", "e", "/">> \o N_a
          \o <<")">>,
      <<"[", "l", "]", "(">> \o N_a \o <<")">>,
      <<"t">> }

\* the bytes b.md may hold: "[l](a.md#x)", "(a.md) [l](a.md)",
\* "[l](%61.md)", "![i](a.md)", "t a.md", "[l](s/c.md)"
TextsB ==
    { <<"[", "l", "]", "(">> \o N_a \o <<"#", "x", ")">>,
      <<"(">> \o N_a \o <<")", " ", "[", "l", "]", "(">> \o N_a \o <<")">>,
      <<"[", "l", "]", "(", "%", "6", "1", ".", "m", "d", ")">>,
      <<"!", "[", "i", "]", "(">> \o N_a \o <<")">>,
      <<"t", " ">> \o N_a,
      <<"[", "l", "]", "(", "s", "/">> \o N_c \o <<")">> }

\* the bytes s/c.md may hold: "[l](../a.md)", "t"
TextsC ==
    { <<"[", "l", "]", "(", ".", ".", "/">> \o N_a \o <<")">>,
      <<"t">> }

\* the permissions a run may meet: everything can be read and written,
\* b.md cannot be read, b.md cannot be written, s cannot be read
Perms ==
    { [noRead |-> {}, noWrite |-> {}],
      [noRead |-> {<<N_w, N_b>>}, noWrite |-> {}],
      [noRead |-> {}, noWrite |-> {<<N_w, N_b>>}],
      [noRead |-> {<<N_w, N_s>>}, noWrite |-> {}] }

\* the filesystems a run may start on
Filesystems ==
    { [files |-> (<<N_w, N_a>> :> ta) @@ (<<N_w, N_b>> :> tb)
                 @@ (<<N_w, N_s, N_c>> :> tc)
                 @@ [f \in FSFiles |-> <<"t">>],
       dirs |-> FSDirs,
       noRead |-> p.noRead,
       noWrite |-> p.noWrite]
      : ta \in TextsA, tb \in TextsB, tc \in TextsC, p \in Perms }

\* the src argument: "a.md", "./a.md", "zz.md", "n", ""
SrcArgs ==
    { N_a, <<".", "/">> \o N_a, <<"z", "z", ".", "m", "d">>, N_n, <<>> }

\* the dst argument: "s/a.md", "t/a.md", "b.md", "a.md", "../x/a.md",
\* "/x/a.md"
DstArgs ==
    { <<"s", "/">> \o N_a, <<"t", "/">> \o N_a, N_b, N_a,
      <<".", ".", "/", "x", "/">> \o N_a, <<"/", "x", "/">> \o N_a }

\* the rewriter before it is called
RnIdle(fs) ==
    [pc |-> "start", src |-> <<>>, dst |-> <<>>, fs |-> fs, fs0 |-> fs,
     walkQ |-> <<>>, errCnt |-> 0, ret |-> "none",
     last |-> [op |-> "none", nm |-> <<>>, ret |-> "nil", relErr |-> FALSE],
     failed |-> {}, visited |-> {}]

\* what a step of the rewriter did: the function, the file it was about,
\* what the function returned and whether filepath.Rel failed in it
RnStep(op, nm, r, relErr) ==
    [op |-> op, nm |-> nm, ret |-> r, relErr |-> relErr]

(***************************************************************************)
(* mdrename: run.                                                          *)
(***************************************************************************)
\* what run returns before it touches the filesystem, "go" when it goes on
\* (main.go:52-63)
precheck(fs, src, dst) ==
    IF src = <<>> \/ dst = <<>> THEN "unset"
    ELSE IF ~HasSuffix(src, MdSuffix) \/ ~HasSuffix(dst, MdSuffix)
         THEN "suffix"
    ELSE IF src = dst THEN "nil"
    ELSE IF rnFileExists(fs, dst) THEN "exists"
    ELSE "go"

\* os.MkdirAll of dst's directory, then os.Rename (main.go:64-69)
move(fs, src, dst) ==
    LET mk == MkdirAll(fs, Dir(dst))
        mv == Rename(mk.fs, src, dst)
    IN  IF mk.err THEN [ret |-> "mkdir", fs |-> mk.fs]
        ELSE IF mv.err THEN [ret |-> "rename", fs |-> mv.fs]
        ELSE [ret |-> "nil", fs |-> mv.fs]

\* run(src, dst) up to the rename
RnRun(src, dst) ==
    /\ rn.pc = "start"
    /\ \E pre \in {precheck(rn.fs, src, dst)} :
       \E mv \in {move(rn.fs, src, dst)} :
          rn' = IF pre # "go"
                THEN [rn EXCEPT !.pc = "done", !.src = src, !.dst = dst,
                                !.ret = pre,
                                !.last = RnStep("run", <<>>, pre, FALSE)]
                ELSE [rn EXCEPT !.pc = IF mv.ret = "nil" THEN "update"
                                       ELSE "done",
                                !.src = src, !.dst = dst, !.fs = mv.fs,
                                !.ret = IF mv.ret = "nil" THEN "none"
                                        ELSE mv.ret,
                                !.last = RnStep("run", <<>>, mv.ret, FALSE)]

\* run calls updateRenamedFile and, when it returns nil, starts
\* filepath.Walk at "." (main.go:70-73)
RnUpdate ==
    /\ rn.pc = "update"
    /\ \E r \in {updateRenamedFile(rn.fs, rn.src, rn.dst)} :
          rn' = [rn EXCEPT !.pc = IF r.ret = "nil" THEN "walk" ELSE "done",
                           !.fs = r.fs,
                           !.walkQ = IF r.ret = "nil" THEN << <<".">> >>
                                     ELSE <<>>,
                           !.ret = IF r.ret = "nil" THEN "none" ELSE r.ret,
                           !.last = RnStep("updateRenamedFile", rn.dst, r.ret,
                                           r.relErr)]

\* the names of a directory's entries, joined to its name
RnChildren(fs, nm) == JoinAll(nm, RnDirNames(fs, Abs(nm)))

\* the directories the walk does not enter (main.go:78-80)
rnSkipDir(nm) == Base(nm) # <<".">> /\ HasPrefix(Base(nm), <<".">>)

\* filepath.Walk visits the next name and calls run's callback:
\* a directory that cannot be read ends the walk with its error, a dot
\* directory other than "." is skipped, a file with the suffix .md goes to
\* processFile and its error is counted (main.go:74-89)
RnWalkStep ==
    /\ rn.pc = "walk"
    /\ rn.walkQ # <<>>
    /\ LET nm == Head(rn.walkQ)
           isDir == RnStat(rn.fs, nm) = "dir"
       IN  IF isDir /\ Abs(nm) \in rn.fs.noRead
           THEN rn' = [rn EXCEPT !.pc = "done", !.walkQ = <<>>,
                                 !.ret = "walk",
                                 !.last = RnStep("walk", nm, "walk", FALSE)]
           ELSE IF isDir
           THEN rn' = [rn EXCEPT
                         !.walkQ = (IF rnSkipDir(nm) THEN <<>>
                                    ELSE RnChildren(rn.fs, nm))
                                   \o Tail(rn.walkQ),
                         !.last = RnStep("walk", nm, "nil", FALSE)]
           ELSE IF ~HasSuffix(nm, MdSuffix)
           THEN rn' = [rn EXCEPT !.walkQ = Tail(rn.walkQ),
                                 !.last = RnStep("walk", nm, "nil", FALSE)]
           ELSE \E r \in {rnProcessFile(rn.fs, nm, rn.src, rn.dst)} :
                   rn' = [rn EXCEPT
                            !.walkQ = Tail(rn.walkQ),
                            !.fs = r.fs,
                            !.errCnt = IF r.ret # "nil" THEN rn.errCnt + 1
                                       ELSE rn.errCnt,
                            !.failed = IF r.ret # "nil" \/ r.relErr
                                       THEN rn.failed \cup {nm}
                                       ELSE rn.failed,
                            !.visited = rn.visited \cup {nm},
                            !.last = RnStep("processFile", nm, r.ret,
                                            r.relErr)]

\* filepath.Walk returned nil: run fails when files had errors
\* (main.go:90-95)
RnWalkDone ==
    /\ rn.pc = "walk"
    /\ rn.walkQ = <<>>
    /\ rn' = [rn EXCEPT !.pc = IF rn.errCnt > 0 THEN "done" ELSE "check",
                        !.ret = IF rn.errCnt > 0 THEN "errcnt" ELSE "none",
                        !.last = RnStep("walkdone", <<>>,
                                        IF rn.errCnt > 0 THEN "errcnt"
                                        ELSE "nil", FALSE)]

\* run ends with the result of mdurlcheck when that program is installed:
\* it is "absent", or it runs and exits "clean" or "dirty" (main.go:96-102)
RnCheck(mdurlcheck) ==
    /\ rn.pc = "check"
    /\ rn' = [rn EXCEPT !.pc = "done",
                        !.ret = IF mdurlcheck = "dirty" THEN "mdurlcheck"
                                ELSE "nil",
                        !.last = RnStep("check", <<>>,
                                        IF mdurlcheck = "dirty"
                                        THEN "mdurlcheck" ELSE "nil", FALSE)]


InitRename ==
    /\ MdStart({{}}, "off")
    /\ rn \in {RnIdle(fs) : fs \in Filesystems}
    /\ srv = SrvOff

NextRename ==
    \/ \E src \in SrcArgs, dst \in DstArgs :
          RnRun(src, dst) /\ UNCHANGED <<mdvars, srv>>
    \/ RnUpdate /\ UNCHANGED <<mdvars, srv>>
    \/ RnWalkStep /\ UNCHANGED <<mdvars, srv>>
    \/ RnWalkDone /\ UNCHANGED <<mdvars, srv>>
    \/ \E mdurlcheck \in {"absent", "clean", "dirty"} :
          RnCheck(mdurlcheck) /\ UNCHANGED <<mdvars, srv>>

SpecRename == InitRename /\ [][NextRename]_vars

(***************************************************************************)
(* Properties of mdrename, checked under SpecRename.                       *)
(***************************************************************************)
\* run has taken its arguments
RnCalled == rn.pc \notin {"off", "start"}

\* dst named a regular file when run was called
DstExisted == RnCalled /\ Abs(rn.dst) \in DOMAIN rn.fs0.files

\* the filesystem is as it was when run was called: no directory was
\* made, no file was renamed and no content was rewritten
NoMutation == rn.fs = rn.fs0

\* C11 as stated: whenever dst already names an existing regular file, run
\* fails with the destination-exists error and nothing on the filesystem
\* has changed.
C11_Original == DstExisted => (rn.ret = "exists" /\ NoMutation)

\* C11: whenever dst already names an existing regular file, nothing on
\* the filesystem changes; and when src and dst are both set, both end in
\* .md and differ as strings, run fails with the destination-exists error.
C11_ExistsBeforeMutation ==
    DstExisted =>
        /\ NoMutation
        /\ rn.pc = "done"
        /\ (/\ rn.src # <<>>
            /\ HasSuffix(rn.src, MdSuffix)
            /\ HasSuffix(rn.dst, MdSuffix)
            /\ rn.src # rn.dst) => rn.ret = "exists"
        /\ rn.ret \in {"exists", "suffix", "unset", "nil"}
        /\ rn.ret = "nil" => rn.src = rn.dst

\* run a.md b.md, both existing files, was refused
C11_Witness ==
    /\ DstExisted
    /\ rn.src = N_a
    /\ rn.dst = N_b
    /\ rn.ret = "exists"
    /\ Abs(rn.src) \in DOMAIN rn.fs.files

\* run has renamed the file and returned nil
RnSucceeded ==
    rn.pc = "done" /\ rn.ret = "nil" /\ rn.last.op = "check"

\* the bytes of the renamed file before run and after it
MovedBefore == rn.fs0.files[Abs(rn.src)]
MovedAfter == rn.fs.files[Abs(rn.dst)]

\* a destination with a path and without scheme and host
IsLocalDest(d) == ~rnSkips(UrlParse(d))

\* where a local destination found in a file of directory dir leads
TargetFrom(dir, d) == Abs(Join(dir, FromSlash(UrlParse(d).Path)))

\* C12: after run(src, dst) has succeeded, every local-path link or image
\* destination of the moved file, resolved against the directory of dst,
\* denotes the same path as the original destination resolved against the
\* directory of src, with the same fragment.
C12_SelfReferenceRoundTrip ==
    RnSucceeded =>
        LET old == Nodes(MovedBefore, 1)
            new == Nodes(MovedAfter, 1)
        IN  /\ Len(new) = Len(old)
            /\ \A i \in 1..Len(old) :
                  IsLocalDest(old[i].Destination) =>
                      /\ IsLocalDest(new[i].Destination)
                      /\ TargetFrom(Dir(rn.dst), new[i].Destination)
                           = TargetFrom(Dir(rn.src), old[i].Destination)
                      /\ UrlParse(new[i].Destination).Fragment
                           = UrlParse(old[i].Destination).Fragment

\* run has renamed the file and filepath.Walk has visited every name
RnWalked == rn.pc \in {"check", "done"} /\ rn.last.op \in {"walkdone", "check"}

\* the markdown files filepath.Walk hands to processFile, other than the
\* renamed file
Referrers ==
    {nm \in rn.visited : Abs(nm) # Abs(rn.dst)}

\* the bytes b of file nm with exactly the destinations of the inline links
\* that resolve to src replaced by the relative path from the directory of
\* nm to dst, the fragment kept, and nothing else changed
RECURSIVE Rewritten(_, _, _, _, _)
Rewritten(b, i, nm, src, dst) ==
    IF i > Len(b) THEN <<>>
    ELSE IF b[i] # "[" THEN <<b[i]>> \o Rewritten(b, i + 1, nm, src, dst)
    ELSE LET j == IndexFrom(b, "]", i + 1)
             k == IF j = 0 \/ j + 1 > Len(b) \/ b[j + 1] # "(" THEN 0
                  ELSE IndexFrom(b, ")", j + 2)
             d == SubSeq(b, j + 2, k - 1)
             u == UrlParse(d)
             image == i > 1 /\ b[i - 1] = "!"
         IN  IF k = 0 THEN <<b[i]>> \o Rewritten(b, i + 1, nm, src, dst)
             ELSE IF ~image /\ IsLocalDest(d)
                     /\ TargetFrom(Dir(nm), d) = Abs(src)
                  THEN SubSeq(b, i, j + 1)
                       \o URLString(ToSlash(Rel(Dir(nm), dst).val), u.Fragment)
                       \o <<")">> \o Rewritten(b, k + 1, nm, src, dst)
             ELSE SubSeq(b, i, k) \o Rewritten(b, k + 1, nm, src, dst)

\* C13: after run(src, dst), however src is spelled, the content of every
\* markdown file the walk visits is its original content with exactly the
\* destinations of the inline links that resolve to the old path replaced
\* by the relative path from the file's directory to dst, the fragment
\* kept, where there is such a relative path; nothing else in the file is
\* altered, and a file without such a link is left as it was.
C13_ReferrerUpdate ==
    RnWalked =>
        \A nm \in Referrers :
            ~Rel(Dir(nm), rn.dst).err =>
                rn.fs.files[Abs(nm)]
                    = Rewritten(rn.fs0.files[Abs(nm)], 1, nm, rn.src, rn.dst)

\* C14: every failure to update a referring file (reading it, computing
\* the new relative path, writing it) is counted as an error of that file
\* and the walk goes on with the remaining files; when the walk is over
\* run returns an error exactly if some file failed, and the rename is
\* still in effect.
C14_PerFileErrors ==
    /\ (RnCalled /\ rn.pc # "done") => rn.errCnt = Cardinality(rn.failed)
    /\ rn.last.op = "processFile" => rn.pc = "walk"
    /\ RnWalked =>
          /\ rn.errCnt = Cardinality(rn.failed)
          /\ rn.pc = "done" => (rn.ret # "nil" <=> rn.failed # {})
          /\ Abs(rn.dst) \in DOMAIN rn.fs.files
          /\ Abs(rn.src) \notin DOMAIN rn.fs.files

\* C18: the pre-filter of processFile only saves work: a file that
\* processFile gives up because its bytes do not hold the base name of src
\* has no link that resolves to src, so the result is the one processFile
\* has without the pre-filter.
C18_PrefilterIsOptimization ==
    (rn.last.op = "processFile" /\ rn.last.ret = "nil") =>
        LET nm == rn.last.nm
            b == rn.fs.files[Abs(nm)]
        IN  ~prefilter(b, rn.src) =>
                /\ processWalk(Nodes(b, 1), nm, rn.src, rn.dst, <<>>).repl
                     = <<>>
                /\ ~processWalk(Nodes(b, 1), nm, rn.src, rn.dst, <<>>).walkErr

(***************************************************************************)
(* Further properties of mdurlcheck, checked under Spec.                   *)
(***************************************************************************)
MsgUnstable ==
    "unstable slug reference, may become incorrect on unrelated header changes"

\* C15: a destination that is only a fragment and names a heading id the
\* parser made unique with a numeric suffix yields the one advisory line
\* "unstable slug reference, may become incorrect on unrelated header
\* changes" for that destination, at its place among the lines of the
\* document.
C15_UnstableSlugAdvisory ==
    (Visited /\ IsFragmentOnly(LastU)
       /\ LastU.Fragment \in Suffixed(Abs(name)))
        => last.log = <<LogLine(name, last.dst, MsgUnstable)>>

IsEmptyDest == last.dst = <<>>

\* how many of the four variants the last destination falls into
NumVariants ==
    Cardinality({v \in {"External", "Empty", "FragmentOnly", "LocalPath"} :
                    \/ v = "External" /\ IsExternal(LastU)
                    \/ v = "Empty" /\ IsEmptyDest
                    \/ v = "FragmentOnly" /\ IsFragmentOnly(LastU)
                    \/ v = "LocalPath" /\ IsLocalPath(LastU)})

\* a destination that is not empty and has no scheme, host, path or
\* fragment, such as "?q"
IsBare(u) ==
    /\ ~IsEmptyDest
    /\ u.Scheme = <<>> /\ u.Host = <<>> /\ u.Path = <<>> /\ u.Fragment = <<>>

\* the calls the last step made on the filesystem and on the cache
NoChecks == last.nstat = 0 /\ last.nhasRef = 0 /\ last.nfileRefs = 0

\* C17 as stated: every destination that parses falls into exactly one of
\* External, Empty, FragmentOnly and LocalPath.
C17_Original == (Visited /\ ~LastU.err) => NumVariants = 1

\* C17: a destination that parses falls into at most one of External,
\* Empty, FragmentOnly and LocalPath, decided by scheme, host, path and
\* fragment alone, and into none exactly when it is not empty and all four
\* are empty; processFile applies the checks of the variant, and no check
\* at all to a destination of no variant.
C17_ClassificationDecidesChecks ==
    (Visited /\ ~LastU.err) =>
        /\ NumVariants <= 1
        /\ NumVariants = 0 <=> IsBare(LastU)
        /\ IsEmptyDest =>
              /\ last.log = <<LogLine(name, <<>>, MsgEmpty)>>
              /\ ~last.err /\ NoChecks
        /\ IsExternal(LastU) => (last.log = <<>> /\ ~last.err /\ NoChecks)
        /\ IsFragmentOnly(LastU) =>
              /\ NoChecks
              /\ last.err <=> LastU.Fragment \notin IdsOf(name)
              /\ last.log = IF last.err THEN <<BrokenLine>> ELSE <<>>
        /\ IsLocalPath(LastU) =>
              /\ last.nstat = 1
              /\ last.file = Target
              /\ last.nhasRef = IF LastU.Fragment # <<>> THEN 1 ELSE 0
              /\ TargetIsFile <=> BrokenLine \notin
                                    {last.log[i] : i \in 1..Len(last.log)}
        /\ IsBare(LastU) => (last.log = <<>> /\ ~last.err /\ NoChecks)

\* the destination "?q" was visited and nothing was checked or logged
C17_Witness ==
    /\ Visited
    /\ last.dst = <<"?", "q">>
    /\ ~LastU.err
    /\ NumVariants = 0
    /\ last.log = <<>>
    /\ NoChecks

(***************************************************************************)
(* mdserver (src/main.go): mdHandler.ServeHTTP, serving the working       *)
(* directory.  A response is its status, its Last-Modified header ("" when *)
(* the header is not set) and whether the markdown was read and rendered   *)
(* for it.                                                                 *)
(***************************************************************************)
\* number of requests the handler serves
MaxRequests == 3

\* the modification time of every file, as an HTTP date
ModTime == "T"

\* the paths requested: "/a.md", "/b.md", "/zz.md", "/s/c.md",
\* "/../a.md", "/n", "/zz", "/"
ReqPaths ==
    { <<"/">> \o N_a, <<"/">> \o N_b, <<"/", "z", "z", ".", "m", "d">>,
      <<"/", "s", "/">> \o N_c, <<"/", ".", ".", "/">> \o N_a,
      <<"/">> \o N_n, <<"/", "z", "z">>, <<"/">> }

\* the requests: the path, the query and the If-Modified-Since header
Requests ==
    [Path : ReqPaths, RawQuery : {"", "index"}, IfModifiedSince : {"", ModTime}]

Response(status, lastModified, rendered) ==
    [status |-> status, lastModified |-> lastModified, rendered |-> rendered]

\* main.go:256-266
containsDotDot(v) == \E i \in 1..Len(Split(v)) : Split(v)[i] = DotDot

\* http.FileServer on the directory: a regular file is served by
\* http.ServeContent with its modification time, which answers 304 to a
\* matching If-Modified-Since; a directory is listed
fileServer(r) ==
    LET st == Stat(Join(<<".">>, r.Path))
    IN  IF st.err THEN Response(404, "", FALSE)
        ELSE IF st.isDir THEN Response(200, "", FALSE)
        ELSE IF r.IfModifiedSince = ModTime THEN Response(304, ModTime, FALSE)
        ELSE Response(200, ModTime, FALSE)

\* the response to a readable markdown file: the bytes are read and
\* rendered into the page template for every request, and no header is set
\* (main.go:109-133)
servePage(r) == Response(200, "", TRUE)

\* mdHandler.ServeHTTP (main.go:90-134)
ServeHTTP(r) ==
    LET p == Clean(r.Path)
        nm == Join(<<".">>, FromSlash(p))
        st == Stat(nm)
    IN  IF r.Path = <<"/">> /\ r.RawQuery = "index"
        THEN Response(200, "", FALSE)
        ELSE IF ~HasSuffix(r.Path, MdSuffix) THEN fileServer(r)
        ELSE IF containsDotDot(p) THEN Response(400, "", FALSE)
        ELSE IF st.err THEN Response(404, "", FALSE)
        ELSE IF ReadFile(nm).err THEN Response(500, "", FALSE)
        ELSE servePage(r)

\* the server before the first request
SrvIdle == [pc |-> "serve", n |-> 0, renders |-> 0, log |-> <<>>]

\* the handler serves one request
Serve(r) ==
    /\ srv.pc = "serve"
    /\ srv.n < MaxRequests
    /\ \E resp \in {ServeHTTP(r)} :
          srv' = [srv EXCEPT
                    !.n = srv.n + 1,
                    !.renders = IF resp.rendered THEN srv.renders + 1
                                ELSE srv.renders,
                    !.log = IF srv.log = <<>> THEN <<[req |-> r, resp |-> resp]>>
                            ELSE <<srv.log[Len(srv.log)],
                                   [req |-> r, resp |-> resp]>>]

InitServer ==
    /\ MdStart(SUBSET Deniable, "off")
    /\ rn = RnOff
    /\ srv = SrvIdle

NextServer ==
    \E r \in Requests : Serve(r) /\ UNCHANGED <<mdvars, rn>>

SpecServer == InitServer /\ [][NextServer]_vars

(***************************************************************************)
(* Properties of mdserver, checked under SpecServer.                       *)
(***************************************************************************)
\* a request for the page of a markdown file that exists and can be read
IsPageRequest(r) ==
    /\ HasSuffix(r.Path, MdSuffix)
    /\ Abs(Join(<<".">>, Clean(r.Path))) \in FSFiles \ denied

\* C16: a GET request for an existing markdown file is answered 200 with a
\* Last-Modified header that is not empty; a following GET request for the
\* same file with that value in If-Modified-Since is answered 304; and for
\* the two requests together the markdown is read and rendered exactly
\* once.
C16_LazyRendering ==
    /\ \A i \in 1..Len(srv.log) :
          (IsPageRequest(srv.log[i].req)
             /\ srv.log[i].req.IfModifiedSince = "")
            => /\ srv.log[i].resp.status = 200
               /\ srv.log[i].resp.lastModified # ""
    /\ (/\ Len(srv.log) = 2
        /\ IsPageRequest(srv.log[1].req)
        /\ srv.log[1].req.IfModifiedSince = ""
        /\ srv.log[2].req.Path = srv.log[1].req.Path
        /\ srv.log[2].req.IfModifiedSince # "")
         => /\ srv.log[2].resp.status = 304
            /\ Cardinality({i \in 1..2 : srv.log[i].resp.rendered}) = 1

=============================================================================
